---- MODULE Spec2Model ----
(***************************************************************************)
(* Model of the Robot orchestration layer (src/src/robot.js and the        *)
(* constructor-injected variant in src/unnamed/part_000).                  *)
(*                                                                         *)
(* JavaScript values are written as their source text ("true", "false",    *)
(* "undefined", "null", "5", ...).  The variables op, result, issued and   *)
(* emitted describe the operation that ran last: its name and arguments,   *)
(* how it ended, the joint-controller calls it made and the notifications  *)
(* it emitted, in order.  running is false once an uncaught exception has   *)
(* ended the process; delivered.ids is the set of joints whose 'home'       *)
(* events were handled since the last other operation, delivered.again     *)
(* tells that the last of them came from a joint already in that set.      *)
(***************************************************************************)
EXTENDS Integers, Sequences, FiniteSets, TLC

\* ------------------------------------------------------------------ bounds
MaxJoints == 2

\* ------------------------------------------------------------ input domains
JointIds == <<"j0", "j1", "j2", "j3">>
Ghost == "ghost"
Params == {"limitAdj", "home"}
TopKeys == {JointIds[1], Ghost}
Values == {"NaN", "5"}
Undefined == "undefined"
Null == "null"
Keys == {<<JointIds[1], "limitAdj">>, <<JointIds[1], "home">>,
         <<Ghost, "limitAdj">>, <<Ghost>>}
Positions == {"10"}
Velocities == {"20"}
Indexes == {"1"}
Subindexes == {"2"}

VARIABLES motors, stopped, ready, home, homing, moving,
          motorMap, pending, config, store,
          op, result, issued, emitted, running, delivered

flags == <<stopped, ready, home, homing, moving>>
joints == <<motorMap, pending>>
last == <<op, result, issued, emitted>>
vars == <<motors, stopped, ready, home, homing, moving,
          motorMap, pending, config, store, op, result, issued, emitted,
          running, delivered>>

\* ---------------------------------------------------------------- helpers
Range(s) == {s[i] : i \in 1..Len(s)}
MotorIds == Range(motors)
Ids == MotorIds \cup {Ghost}

\* JavaScript truthiness of a value
Truthy(v) == v \notin {"false", "0", "NaN", Undefined, Null}

\* variant: the null check is missing
IsNullishNever(v) == FALSE

\* value == null  (loose equality: null and undefined)
IsNullish(v) == v \in {Null, Undefined}

\* key.includes('.') and key.split('.') on a key given as its segments
IncludesDot(key) == Len(key) > 1

\* ----------------------------------------------------------- configuration
NoProps == [p \in Params |-> Undefined]
EmptyObject == [top |-> [k \in TopKeys |-> Undefined],
                props |-> [k \in TopKeys |-> NoProps]]
\* this.config when readConfig() threw before assigning it
NoConfig == [loaded |-> FALSE, obj |-> EmptyObject]
Loaded(o) == [loaded |-> TRUE, obj |-> o]

WithObject(o, k) == [o EXCEPT !.top[k] = "object"]

\* JSON.stringify of one value: NaN is written as null, an undefined member
\* is left out (and so reads back as undefined)
StringifyValue(v) == IF v = "NaN" THEN Null ELSE v

\* JSON.parse(JSON.stringify(o)): the object a file written from o holds
Stringify(o) ==
  [top |-> [k \in TopKeys |-> StringifyValue(o.top[k])],
   props |-> [k \in TopKeys |-> [p \in Params |-> StringifyValue(o.props[k][p])]]]

JsonFile(o) == [kind |-> "json", obj |-> o]

\* the contents config.json may have when the process starts
InitialFiles == {[kind |-> "absent", obj |-> EmptyObject],
                 [kind |-> "corrupt", obj |-> EmptyObject],
                 JsonFile(EmptyObject),
                 JsonFile(WithObject(EmptyObject, JointIds[1])),
                 JsonFile(WithObject(WithObject(EmptyObject, JointIds[1]), Ghost))}

\* readConfig(): the file after the call; an absent file is created as {}
\* unless that write throws (ok = FALSE)
FileAfterRead(file, ok) ==
  IF file.kind = "absent" /\ ok THEN JsonFile(Stringify(EmptyObject)) ELSE file

\* readConfig(): this.config after the call; left unassigned when reading or
\* parsing threw
ReadConfig(file, ok) ==
  LET f == FileAfterRead(file, ok)
  IN IF f.kind = "json" THEN Loaded(f.obj) ELSE NoConfig

\* writeConfig(): the file after the call; a failed write is caught and logged
WriteConfig(file, cfg, ok) ==
  IF ok /\ cfg.loaded THEN JsonFile(Stringify(cfg.obj)) ELSE file

\* ------------------------------------------------------- joint controller
NewMotor == [home |-> "false", limitAdj |-> Undefined]

\* this.motors.every( motor => motor.home )
EveryMotorHome(mm) == \A i \in 1..Len(motors) : Truthy(mm[motors[i]].home)

Call(id, method, args) == <<id, method>> \o args
\* motors.forEach(motor => motor.<method>())
FanOut(method) == [i \in 1..Len(motors) |-> Call(motors[i], method, <<>>)]

\* Motor.goHome(): a new homing run starts, the joint is no longer homed
GoHome(m) == [m EXCEPT !.home = "false"]

\* the Motor sets its homed flag before it emits 'home'
HomeReached(m) == [m EXCEPT !.home = "true"]

\* ------------------------------------------------------------------- Init
\* variant: the robot is constructed stopped
NewFlagsStopped ==
  [stopped |-> TRUE, ready |-> TRUE, home |-> FALSE, homing |-> FALSE,
   moving |-> FALSE]

\* the flags the constructor assigns; start() then sets ready
NewFlags ==
  [stopped |-> FALSE, ready |-> TRUE, home |-> FALSE, homing |-> FALSE,
   moving |-> FALSE]

\* no 'home' event since the last other operation
NoneDelivered == [ids |-> {}, again |-> FALSE]

Init ==
  /\ \E n \in 1..MaxJoints : motors = SubSeq(JointIds, 1, n)
  /\ stopped = NewFlags.stopped
  /\ ready = NewFlags.ready
  /\ home = NewFlags.home
  /\ homing = NewFlags.homing
  /\ moving = NewFlags.moving
  /\ motorMap = [id \in MotorIds |-> NewMotor]
  /\ pending = [id \in MotorIds |-> FALSE]
  /\ \E file \in InitialFiles, ok \in BOOLEAN :
       /\ config = ReadConfig(file, ok)
       /\ store = FileAfterRead(file, ok)
  /\ op = <<"constructor">>
  /\ result = "returned"
  /\ issued = <<>>
  /\ emitted = <<"ready">>
  /\ running = TRUE
  /\ delivered = NoneDelivered

\* an operation runs (only while the process lives) and ends with res
Ran(name, res, calls, events) ==
  /\ running
  /\ op' = name
  /\ result' = res
  /\ issued' = calls
  /\ emitted' = events

Returned(name, calls, events) ==
  /\ Ran(name, "returned", calls, events)
  /\ running' = TRUE
  /\ delivered' = NoneDelivered

\* the operation threw error to its caller
Threw(name, error, calls, events) ==
  /\ Ran(name, error, calls, events)
  /\ running' = TRUE
  /\ delivered' = NoneDelivered

\* the calls made by motors.forEach(motor => motor.<method>()) when the call
\* on the failAt-th joint throws (failAt = 0: none throws): forEach has no
\* try/catch, so the loop ends at the throwing call
FanOutUntil(method, failAt) ==
  IF failAt = 0 THEN FanOut(method) ELSE SubSeq(FanOut(method), 1, failAt)

\* a fan-out followed by the emission of events: the exception of a joint
\* leaves the operation before the emit
FanOutEnds(name, method, failAt, events) ==
  IF failAt = 0
  THEN Returned(name, FanOutUntil(method, failAt), events)
  ELSE Threw(name, "JointCommandError", FanOutUntil(method, failAt), <<>>)

\* ---------------------------------------------------------- periodic ticks
\* variant: the stopped guard is missing
DispatchCallsAlways == FanOut("writeJointSetPoints")

\* the guard of writeJointSetPoints(): nothing is sent while stopped
DispatchCalls == IF stopped THEN <<>> ELSE FanOut("writeJointSetPoints")

\* a setInterval callback threw: start() wraps no callback in try/catch, so
\* the exception is uncaught and ends the process, unless the host process
\* has installed an uncaughtException handler (survives)
Uncaught(name, error, calls, events, survives) ==
  /\ Ran(name, error, calls, events)
  /\ running' = survives
  /\ delivered' = NoneDelivered

\* how a tick whose callback threw (or did not) ends
TickEnds(name, error, threw, calls, events, survives) ==
  IF threw THEN Uncaught(name, error, calls, events, survives)
           ELSE Returned(name, calls, events)

\* the 50 ms tick: writeJointSetPoints(), where the write of the failAt-th
\* joint may throw
writeJointSetPoints ==
  \E failAt \in 0..Len(DispatchCalls), survives \in BOOLEAN :
    /\ failAt = 0 => survives
    /\ TickEnds(<<"writeJointSetPoints">>, "JointCommandError", failAt > 0,
                IF failAt = 0 THEN DispatchCalls
                              ELSE SubSeq(DispatchCalls, 1, failAt),
                <<>>, survives)
    /\ UNCHANGED <<motors, flags, joints, config, store>>

\* the 1000 ms tick: emit('state', this.state), where a listener may throw
stateTick ==
  \E threw \in BOOLEAN, survives \in BOOLEAN :
    /\ ~threw => survives
    /\ TickEnds(<<"stateTick">>, "ListenerError", threw, <<>>, <<"state">>, survives)
    /\ UNCHANGED <<motors, flags, joints, config, store>>

\* the 100 ms tick: emit('encoder'), where a listener may throw
encoderTick ==
  \E threw \in BOOLEAN, survives \in BOOLEAN :
    /\ ~threw => survives
    /\ TickEnds(<<"encoderTick">>, "ListenerError", threw, <<>>, <<"encoder">>, survives)
    /\ UNCHANGED <<motors, flags, joints, config, store>>

\* ------------------------------------------------------------ joint events
\* variant: the handler emits nothing
StateEventsNone == <<>>

\* what robotState() emits
StateEvents == <<"state">>

\* robotState(): handler of 'homing', 'disabled', 'enabled' and 'reset'
robotState(kind, id) ==
  /\ Returned(<<kind, id>>, <<>>, StateEvents)
  /\ UNCHANGED <<motors, flags, joints, config, store>>

homingEvent == \E id \in MotorIds : pending[id] /\ robotState("homing", id)
disabledEvent == \E id \in MotorIds : robotState("disabled", id)
enabledEvent == \E id \in MotorIds : robotState("enabled", id)
resetEvent == \E id \in MotorIds : robotState("reset", id)

\* variant: some() in place of every()
HomingDoneAny(mm) == homing /\ \E i \in 1..Len(motors) : Truthy(mm[motors[i]].home)

\* variant: completion does not ask whether homing is in progress
HomingDoneNoGuard(mm) == EveryMotorHome(mm)

\* variant: completion is decided by counting events, not by the flags
HomingDoneByCount(mm) == homing /\ (EveryMotorHome(mm) \/ delivered.ids # {})

\* the test of motorHomed(id), on the joints as they are when the event arrives
HomingDone(mm) == homing /\ EveryMotorHome(mm)

\* motorHomed(id): handler of 'home'
motorHomed(id, mm) ==
  /\ home' = (IF HomingDone(mm) THEN TRUE ELSE home)
  /\ homing' = (IF HomingDone(mm) THEN FALSE ELSE homing)
  /\ Ran(<<"home", id>>, "returned", <<>>, <<"meta", "state">>)
  /\ running' = TRUE
  /\ delivered' = [ids |-> delivered.ids \cup {id}, again |-> id \in delivered.ids]
  /\ UNCHANGED <<motors, stopped, ready, moving, config, store>>

\* a joint reports home-reached: at the end of a homing run, or once more
\* while it is still homed
homeEvent ==
  \E id \in MotorIds :
    /\ pending[id] \/ Truthy(motorMap[id].home)
    /\ motorMap' = [motorMap EXCEPT ![id] = HomeReached(@)]
    /\ pending' = [pending EXCEPT ![id] = FALSE]
    /\ motorHomed(id, motorMap')

\* ------------------------------------------------------------ robot actions
\* the joints a fan-out reached before the failAt-th call threw; a call that
\* throws has not acted on its joint
Reached(failAt) ==
  IF failAt = 0 THEN MotorIds ELSE {motors[i] : i \in 1..(failAt - 1)}

robotHome ==
  \E failAt \in 0..Len(motors) :
    /\ homing' = TRUE
    /\ motorMap' = [id \in MotorIds |->
                      IF id \in Reached(failAt) THEN GoHome(motorMap[id])
                                                ELSE motorMap[id]]
    /\ pending' = [id \in MotorIds |-> id \in Reached(failAt) \/ pending[id]]
    /\ FanOutEnds(<<"robotHome">>, "goHome", failAt, <<>>)
    /\ UNCHANGED <<motors, stopped, ready, home, moving, config, store>>

\* variant: stopping the robot cancels homing
robotStopCancelsHoming ==
  \E failAt \in 0..Len(motors) :
    /\ stopped' = TRUE
    /\ homing' = FALSE
    /\ FanOutEnds(<<"robotStop">>, "disable", failAt, <<"meta">>)
    /\ UNCHANGED <<motors, ready, home, moving, joints, config, store>>

robotStop ==
  \E failAt \in 0..Len(motors) :
    /\ stopped' = TRUE
    /\ FanOutEnds(<<"robotStop">>, "disable", failAt, <<"meta">>)
    /\ UNCHANGED <<motors, ready, home, homing, moving, joints, config, store>>

robotCenter ==
  \E failAt \in 0..Len(motors) :
    /\ moving' = TRUE
    /\ FanOutEnds(<<"robotCenter">>, "zero", failAt, <<"meta">>)
    /\ UNCHANGED <<motors, stopped, ready, home, homing, joints, config, store>>

\* variant: resetting the robot clears moving
robotResetClearsMoving ==
  \E failAt \in 0..Len(motors) :
    /\ stopped' = FALSE
    /\ moving' = FALSE
    /\ FanOutEnds(<<"robotReset">>, "reset", failAt, <<"meta">>)
    /\ UNCHANGED <<motors, ready, home, homing, joints, config, store>>

robotReset ==
  \E failAt \in 0..Len(motors) :
    /\ stopped' = FALSE
    /\ FanOutEnds(<<"robotReset">>, "reset", failAt, <<"meta">>)
    /\ UNCHANGED <<motors, ready, home, homing, moving, joints, config, store>>

robotEnable ==
  \E failAt \in 0..Len(motors) :
    /\ stopped' = FALSE
    /\ FanOutEnds(<<"robotEnable">>, "enable", failAt, <<"meta">>)
    /\ UNCHANGED <<motors, ready, home, homing, moving, joints, config, store>>

\* ------------------------------------------------------------ motor actions
\* variant: every id resolves to a joint
LookupFirst(id) == TRUE

\* this.motorMap[id].<method>(args): reading a method of a missing entry throws
Lookup(id) == id \in MotorIds

\* fails: the joint's method itself throws, which reaches the caller
CanFail(id) == IF Lookup(id) THEN BOOLEAN ELSE {FALSE}

MotorCommand(name, id, method, args, fails) ==
  IF Lookup(id)
  THEN IF fails
       THEN Threw(<<name, id>> \o args, "JointCommandError",
                  <<Call(id, method, args)>>, <<>>)
       ELSE Returned(<<name, id>> \o args, <<Call(id, method, args)>>, <<>>)
  ELSE Threw(<<name, id>> \o args, "TypeError", <<>>, <<>>)

motorSetPosition ==
  \E id \in Ids, position \in Positions, velocity \in Velocities : \E fails \in CanFail(id) :
    /\ MotorCommand("motorSetPosition", id, "setPosition", <<position, velocity>>, fails)
    /\ UNCHANGED <<motors, flags, joints, config, store>>

motorHome ==
  \E id \in Ids : \E fails \in CanFail(id) :
    /\ MotorCommand("motorHome", id, "goHome", <<>>, fails)
    /\ motorMap' = IF Lookup(id) /\ ~fails
                   THEN [motorMap EXCEPT ![id] = GoHome(@)] ELSE motorMap
    /\ pending' = IF Lookup(id) /\ ~fails
                  THEN [pending EXCEPT ![id] = TRUE] ELSE pending
    /\ UNCHANGED <<motors, flags, config, store>>

motorResetErrors ==
  \E id \in Ids : \E fails \in CanFail(id) :
    /\ MotorCommand("motorResetErrors", id, "reset", <<>>, fails)
    /\ UNCHANGED <<motors, flags, joints, config, store>>

motorEnable ==
  \E id \in Ids : \E fails \in CanFail(id) :
    /\ MotorCommand("motorEnable", id, "enable", <<>>, fails)
    /\ UNCHANGED <<motors, flags, joints, config, store>>

motorDisable ==
  \E id \in Ids : \E fails \in CanFail(id) :
    /\ MotorCommand("motorDisable", id, "disable", <<>>, fails)
    /\ UNCHANGED <<motors, flags, joints, config, store>>

motorZero ==
  \E id \in Ids : \E fails \in CanFail(id) :
    /\ MotorCommand("motorZero", id, "zero", <<>>, fails)
    /\ UNCHANGED <<motors, flags, joints, config, store>>

motorCalibrate ==
  \E id \in Ids : \E fails \in CanFail(id) :
    /\ MotorCommand("motorCalibrate", id, "calibrate", <<>>, fails)
    /\ UNCHANGED <<motors, flags, joints, config, store>>

queryMotorPosition ==
  \E id \in Ids : \E fails \in CanFail(id) :
    /\ MotorCommand("queryMotorPosition", id, "queryPosition", <<>>, fails)
    /\ UNCHANGED <<motors, flags, joints, config, store>>

queryMotorParamter ==
  \E id \in Ids, index \in Indexes, subindex \in Subindexes : \E fails \in CanFail(id) :
    /\ MotorCommand("queryMotorParamter", id, "queryParameter", <<index, subindex>>, fails)
    /\ UNCHANGED <<motors, flags, joints, config, store>>

\* setMotorPosition(id, position, velocity) of the Robot in part_000: it reads
\* motorMap as a free identifier, not this.motorMap, which is a ReferenceError
\* for every id
setMotorPosition ==
  \E id \in Ids, position \in Positions, velocity \in Velocities :
    /\ Threw(<<"setMotorPosition", id, position, velocity>>, "ReferenceError",
             <<>>, <<>>)
    /\ UNCHANGED <<motors, flags, joints, config, store>>

\* ------------------------------------------------------------ configuration
\* this.config[joint][param] = value throws unless config[joint] is an object
ConfigHasJoint(cfg, joint) == cfg.loaded /\ cfg.obj.top[joint] = "object"

SetConfigParam(cfg, joint, param, value) ==
  [cfg EXCEPT !.obj.props[joint][param] = value]

\* this.config[key] = value replaces whatever the key held
SetConfigKey(cfg, key, value) ==
  [cfg EXCEPT !.obj.top[key] = value, !.obj.props[key] = NoProps]

\* this.motorMap[joint][param] = value
SetMotorParam(mm, joint, param, value) == [mm EXCEPT ![joint][param] = value]

\* the calls updateConfig makes on the joint
ZeroStepCalls(joint, param) ==
  IF param = "limitAdj" THEN <<Call(joint, "updateZeroStep", <<>>)>> ELSE <<>>

\* the notifications of an updateConfig that ran to its end
UpdateEvents == <<"meta">>

writeConfig ==
  \E ok \in BOOLEAN :
    /\ store' = WriteConfig(store, config, ok)
    /\ Returned(<<"writeConfig">>, <<>>, <<>>)
    /\ UNCHANGED <<motors, flags, joints, config>>

updateConfig ==
  \E key \in Keys, value \in Values \cup {Null}, save \in BOOLEAN :
  \E ok \in IF save THEN BOOLEAN ELSE {TRUE} :
    LET name == <<"updateConfig", value, IF save THEN "save" ELSE "nosave">> \o key
        joint == key[1]
        param == key[2]
    IN
    /\ IF IsNullish(value)
       THEN /\ Returned(name, <<>>, <<>>)
            /\ UNCHANGED <<joints, config, store>>
       ELSE IF IncludesDot(key)
       THEN IF ~ConfigHasJoint(config, joint)
            THEN /\ Threw(name, "TypeError", <<>>, <<>>)
                 /\ UNCHANGED <<joints, config, store>>
            ELSE IF ~Lookup(joint)
            THEN /\ config' = SetConfigParam(config, joint, param, value)
                 /\ Threw(name, "TypeError", <<>>, <<>>)
                 /\ UNCHANGED <<joints, store>>
            ELSE /\ config' = SetConfigParam(config, joint, param, value)
                 /\ motorMap' = SetMotorParam(motorMap, joint, param, value)
                 /\ store' = IF save THEN WriteConfig(store, config', ok) ELSE store
                 /\ Returned(name, ZeroStepCalls(joint, param), UpdateEvents)
                 /\ UNCHANGED pending
       ELSE IF ~config.loaded
            THEN /\ Threw(name, "TypeError", <<>>, <<>>)
                 /\ UNCHANGED <<joints, config, store>>
            ELSE /\ config' = SetConfigKey(config, key[1], value)
                 /\ store' = IF save THEN WriteConfig(store, config', ok) ELSE store
                 /\ Returned(name, <<>>, UpdateEvents)
                 /\ UNCHANGED joints
    /\ UNCHANGED <<motors, flags>>

\* everything the Robot does except configuration updates
RobotNext ==
  \/ writeJointSetPoints \/ stateTick \/ encoderTick
  \/ homingEvent \/ homeEvent \/ disabledEvent \/ enabledEvent \/ resetEvent
  \/ motorSetPosition \/ motorHome \/ motorResetErrors \/ motorEnable
  \/ motorDisable \/ motorZero \/ motorCalibrate \/ queryMotorPosition
  \/ queryMotorParamter \/ setMotorPosition
  \/ robotHome \/ robotStop \/ robotCenter \/ robotReset \/ robotEnable

\* the configuration methods
ConfigNext == writeConfig \/ updateConfig

Next == RobotNext \/ ConfigNext

\* the whole Robot.  Configuration updates and the other operations meet only
\* in motorMap (updateConfig assigns a joint property), so the two families
\* are also explored separately, each exhaustively, as SpecRobot and SpecConfig.
Spec == Init /\ [][Next]_vars

\* the Robot driven by commands, ticks and joint events, its configuration
\* left as constructed
SpecRobot == Init /\ [][RobotNext]_vars

\* the Robot driven by configuration updates only
SpecConfig == Init /\ [][ConfigNext]_vars

\* ------------------------------------------------------------------ claims
MotorCommands == {"motorSetPosition", "motorHome", "motorResetErrors",
                  "motorEnable", "motorDisable", "motorZero", "motorCalibrate",
                  "queryMotorPosition", "queryMotorParamter"}

\* the arguments of the updateConfig call recorded in o
UpdValue(o) == o[2]
UpdSave(o) == o[3] = "save"
UpdKey(o) == SubSeq(o, 4, Len(o))
IsUpdate(o) == o[1] = "updateConfig"

\* C1: a home-reached event sets home and clears homing exactly when homing
\* was true and every joint's homed flag is true as the event is handled;
\* otherwise it changes no robot flag; either way it emits meta, then state.
\* home is set and homing is cleared by no other step.
C1_HomeExactlyAtLastJoint ==
  [][/\ op'[1] = "home" =>
          /\ (homing /\ EveryMotorHome(motorMap')) => (home' /\ ~homing')
          /\ ~(homing /\ EveryMotorHome(motorMap')) =>
                (home' = home /\ homing' = homing)
          /\ UNCHANGED <<stopped, ready, moving>>
          /\ emitted' = <<"meta", "state">>
     /\ ((~home /\ home') \/ (homing /\ ~homing')) =>
          /\ op'[1] = "home"
          /\ homing
          /\ EveryMotorHome(motorMap')]_vars

\* C1 witness: with two or more joints, the last joint's event completed homing
C1_Witness ==
  /\ op[1] = "home"
  /\ Len(motors) >= 2
  /\ home /\ ~homing
  /\ EveryMotorHome(motorMap)

\* C2: home implies every joint's homed flag is true.
C2_HomeImpliesAllHomed == home => EveryMotorHome(motorMap)

\* C3: homing and home are never both true between operations.
C3_HomingHomeExclusive == ~(homing /\ home)

\* C4: a dispatch tick while stopped issues no call to any joint, and only
\* robotReset and robotEnable take stopped from true to false.
C4_StoppedSuppressesDispatch ==
  /\ [](op = <<"writeJointSetPoints">> /\ stopped => issued = <<>>)
  /\ [][stopped /\ ~stopped' => op' \in {<<"robotReset">>, <<"robotEnable">>}]_vars

\* C4 witness: a tick ran while the robot was stopped
C4_Witness ==
  /\ op = <<"writeJointSetPoints">>
  /\ stopped
  /\ issued = <<>>

\* C5: updateConfig('j.limitAdj', v, false) on a configured joint j, a non-null
\* v and any loaded config sets config[j].limitAdj and the joint's limitAdj to
\* v, calls the joint's updateZeroStep once, leaves the store alone and emits
\* one meta notification.
C5_LimitAdjApplied ==
  [][(/\ IsUpdate(op')
      /\ UpdValue(op') \in Values
      /\ ~UpdSave(op')
      /\ Len(UpdKey(op')) = 2
      /\ UpdKey(op')[1] \in MotorIds
      /\ UpdKey(op')[2] = "limitAdj"
      /\ config.loaded)
     => LET j == UpdKey(op')[1]
            v == UpdValue(op')
        IN /\ config'.obj.top[j] = "object"
           /\ config'.obj.props[j]["limitAdj"] = v
           /\ motorMap'[j]["limitAdj"] = v
           /\ issued' = <<Call(j, "updateZeroStep", <<>>)>>
           /\ store' = store
           /\ emitted' = <<"meta">>]_vars

\* C6: an updateConfig with a 'joint.param' key either writes the new value to
\* both config[joint][param] and the live joint's param, or leaves both the
\* config and the joints unchanged.
C6_ConfigAndJointTogether ==
  [][(IsUpdate(op') /\ Len(UpdKey(op')) >= 2)
     => LET j == UpdKey(op')[1]
            p == UpdKey(op')[2]
            v == UpdValue(op')
        IN \/ /\ j \in MotorIds
              /\ config'.obj.props[j][p] = v
              /\ motorMap'[j][p] = v
           \/ /\ config' = config
              /\ motorMap' = motorMap]_vars

C8_UnknownJointKeyRejected ==
  [][(/\ IsUpdate(op')
      /\ UpdValue(op') \in Values
      /\ Len(UpdKey(op')) >= 2
      /\ UpdKey(op')[1] \notin MotorIds)
     => /\ result' = "TypeError"
        /\ UNCHANGED <<config, joints, store>>]_vars

\* C9: an updateConfig with a non-null value that returns has, when persist
\* was requested, left the store holding the updated in-memory config, and has
\* not written the store when persist was not requested.
C9_PersistBeforeReturn ==
  [][(IsUpdate(op') /\ UpdValue(op') \in Values /\ result' = "returned")
     => IF UpdSave(op')
        THEN store'.kind = "json" /\ store'.obj = config'.obj
        ELSE store' = store]_vars

\* C10: a per-joint command addressed to an id that is no configured joint
\* raises an error to the caller, issues no joint operation and leaves the
\* robot flags and all joints unchanged.
C10_UnknownJointCommand ==
  [][(op'[1] \in MotorCommands /\ op'[2] \notin MotorIds)
     => /\ result' = "TypeError"
        /\ issued' = <<>>
        /\ emitted' = <<>>
        /\ UNCHANGED <<flags, joints, config, store>>]_vars

\* C10 witness: a command to an unknown id has failed
C10_Witness ==
  /\ op[1] \in MotorCommands
  /\ op[2] = Ghost
  /\ result = "TypeError"

\* the joint method a whole-robot fan-out invokes on every joint
FanOutMethod(name) ==
  CASE name = "writeJointSetPoints" -> "writeJointSetPoints"
    [] name = "robotHome" -> "goHome"
    [] name = "robotStop" -> "disable"
    [] name = "robotCenter" -> "zero"
    [] name = "robotReset" -> "reset"
    [] name = "robotEnable" -> "enable"
FanOutNames == {"writeJointSetPoints", "robotHome", "robotStop", "robotCenter",
                "robotReset", "robotEnable"}
TickNames == {"writeJointSetPoints", "stateTick", "encoderTick"}

\* C11: in every fan-out over two or more joints (the dispatch tick only
\* when not stopped) the command is issued to every joint in registration
\* order and no error reaches the caller, whether or not a joint's command
\* fails.
C11_FanOutIsolatesFailures ==
  [][(/\ op'[1] \in FanOutNames
      /\ Len(motors) >= 2
      /\ (op'[1] = "writeJointSetPoints" => ~stopped))
     => /\ issued' = FanOut(FanOutMethod(op'[1]))
        /\ result' = "returned"]_vars

\* C12: after a periodic tick whose callback raised an error, the process is
\* still running and each of the three periodic actions can tick again.
C12_TickErrorContained ==
  (op[1] \in TickNames /\ result # "returned")
    => /\ running
       /\ ENABLED writeJointSetPoints
       /\ ENABLED stateTick
       /\ ENABLED encoderTick

JointEventKinds == {"homing", "home", "disabled", "enabled", "reset"}

\* C13 as stated: the delivery of any of the five joint events makes the robot
\* emit both a state and a meta notification.
C13_EventsEmitStateAndMeta ==
  [][op'[1] \in JointEventKinds
     => /\ "state" \in Range(emitted')
        /\ "meta" \in Range(emitted')]_vars

\* C13 amended: a 'home' event makes the robot emit meta, then state; each of
\* 'homing', 'disabled', 'enabled' and 'reset' makes it emit one state
\* notification and no meta.
C13_EventsEmitState ==
  [][/\ op'[1] \in JointEventKinds \ {"home"} => emitted' = <<"state">>
     /\ op'[1] = "home" => emitted' = <<"meta", "state">>]_vars

\* C13 witness: a 'reset' event of the second joint was handled
C13_Witness ==
  /\ Len(motors) >= 2
  /\ op = <<"reset", motors[2]>>
  /\ emitted = <<"state">>

\* C14: right after construction home, homing and stopped are all false.
C14_FlagsAfterConstruction ==
  op = <<"constructor">> => (~home /\ ~homing /\ ~stopped)

\* C14 witness: a robot of two or more joints has just been constructed
C14_Witness ==
  /\ op = <<"constructor">>
  /\ Len(motors) >= 2
  /\ ~home /\ ~homing /\ ~stopped

\* the joint method each per-joint command forwards to
CommandMethod(name) ==
  CASE name \in {"motorSetPosition", "setMotorPosition"} -> "setPosition"
    [] name = "motorHome" -> "goHome"
    [] name = "motorResetErrors" -> "reset"
    [] name = "motorEnable" -> "enable"
    [] name = "motorDisable" -> "disable"
    [] name = "motorZero" -> "zero"
    [] name = "motorCalibrate" -> "calibrate"
    [] name = "queryMotorPosition" -> "queryPosition"
    [] name = "queryMotorParamter" -> "queryParameter"

\* C15: a per-joint command on a configured joint invokes the corresponding
\* joint operation exactly once, on that joint only, with the arguments it was
\* given, and changes no robot flag.
C15_CommandForwarded ==
  [][(op'[1] \in MotorCommands \cup {"setMotorPosition"} /\ op'[2] \in MotorIds)
     => /\ issued' = <<Call(op'[2], CommandMethod(op'[1]), SubSeq(op', 3, Len(op')))>>
        /\ UNCHANGED flags]_vars

\* the steps in which the joint controller itself sets a joint's homed flag:
\* its 'home' event and the start of a homing run
HomingSteps == {"home", "motorHome", "robotHome"}

\* C16: a joint's homed flag changes only in steps of the joint controller;
\* no other Robot operation, updateConfig included, changes it.
C16_HomedFlagOnlyByJoint ==
  [][\A id \in MotorIds :
       motorMap'[id].home # motorMap[id].home => op'[1] \in HomingSteps]_vars

\* C17: a 'home' event of a joint whose 'home' event was already handled in
\* the current run of 'home' events changes neither home nor homing, so the
\* flags after the run are those of the run with each event delivered once;
\* completion is detected at the event that finds homing true and all joints
\* homed; a 'home' event handled when homing is false (after completion)
\* changes neither flag.
C17_DuplicateHomeEvents ==
  [][op'[1] = "home" =>
       /\ op'[2] \in delivered.ids => (home' = home /\ homing' = homing)
       /\ ~homing => (home' = home /\ homing' = homing)
       /\ (homing /\ EveryMotorHome(motorMap')) => (home' /\ ~homing')]_vars

\* C17 witness: in a robot of two joints a joint delivered 'home' again while
\* homing was still in progress, and one did so after completion
C17_Witness ==
  /\ op[1] = "home"
  /\ delivered.again
  /\ Len(motors) >= 2
  /\ \/ homing /\ ~home /\ ~EveryMotorHome(motorMap)
     \/ ~homing /\ home /\ Cardinality(delivered.ids) >= 2

\* C18: home changes from false to true only in the handling of a
\* home-reached event that finds homing true, and homing changes from false
\* to true only in robotHome(); so when the joints are homed one by one
\* through motorHome(id) and robotHome() is never called, home stays false
\* although every joint's homed flag is true.
C18_HomeOnlyWhileHoming ==
  [][/\ (~home /\ home') => (op'[1] = "home" /\ homing)
     /\ (~homing /\ homing') => op'[1] = "robotHome"]_vars

\* C18 witness: two or more joints, each homed on its own, the last one's
\* home-reached just handled; homing was never started and home is false
C18_Witness ==
  /\ op[1] = "home"
  /\ Len(motors) >= 2
  /\ EveryMotorHome(motorMap)
  /\ \A id \in MotorIds : ~pending[id]
  /\ ~homing
  /\ ~home

\* the operations C19 names as leaving homing alone
HomingFrameNames ==
  {"robotStop", "robotReset", "robotEnable", "robotCenter", "setMotorPosition"}
    \cup MotorCommands \cup (JointEventKinds \ {"home"})

AfterCenterNames ==
  (FanOutNames \ {"robotCenter"}) \cup TickNames \cup MotorCommands
    \cup JointEventKinds

\* C20: moving is false after construction, is true after every
\* robotCenter(), and no step changes it from true to false.
C20_MovingNeverCleared ==
  /\ ~moving
  /\ [][/\ op'[1] = "robotCenter" => moving'
        /\ moving => moving']_vars

\* C20 witness: moving is still true after an operation that followed
\* robotCenter()
C20_Witness ==
  /\ moving
  /\ op[1] \in AfterCenterNames
====
